---------------------------- MODULE Spec2Model ----------------------------
(***************************************************************************)
(* State-machine model of tonsil-cycif.py: the script that cuts a grid of  *)
(* overlapped, jittered windows out of three CyCIF cycles and writes one   *)
(* multi-image OME-TIFF per cycle.                                         *)
(*                                                                         *)
(* Pixel arrays are modelled by their shapes and by the source window they *)
(* were cut from; stage positions are kept in hundredths of a micrometre   *)
(* (pixel_size 0.65 is the integer 65), so all arithmetic is exact.        *)
(***************************************************************************)
EXTENDS Integers, Sequences, FiniteSets, TLC

VARIABLES
    pc,            \* position of the script
    base_exists,   \* indices of rel_paths that exist under base
    x1, y1, ov, ms, nx, ny, torder,   \* the geometry constants of lines 47-52
    p,             \* index of the path the existence loop is at
    missing,       \* the flag of line 27
    stdout,        \* the paths printed as MISSING, in order
    xs, ys, tpos,  \* the planned grid (lines 57-59)
    rand,          \* number of pairs drawn so far from RandomState(0)
    ome_base,      \* images of the base metadata document
    i,             \* 1-based cycle index of the conversion loop
    img,           \* shape <<channels, height, width>> of the converted raster
    xml,           \* the serialized document of the current cycle
    ti,            \* number of tiles already written to the current file
    outputs,       \* cycle index -> the output file written for it
    bfconvert_runs, tmp_reads, tmp_removes   \* external effects so far

vars == <<pc, base_exists, x1, y1, ov, ms, nx, ny, torder, p, missing, stdout,
          xs, ys, tpos, rand, ome_base, i, img, xml, ti, outputs,
          bfconvert_runs, tmp_reads, tmp_removes>>

----------------------------------------------------------------------------
(* Bounds of the model *)

MaxN == 3      \* grid dimensions nx, ny range over 1..MaxN

(* Program constants *)

rel_paths == <<"TNP_PILOT1-20191024", "TNP_PILOT1-20191025", "TNP_PILOT1-20191028">>
pixel_size == 65          \* 0.65 um per pixel, in hundredths
nc == 4                   \* len(ex_wavelengths)
tw == 220
th == 180
torder_src == <<6, 7, 8, 5, 4, 3, 0, 1, 2>>

----------------------------------------------------------------------------
(* Helpers *)

Min(a, b) == IF a < b THEN a ELSE b
Max(a, b) == IF a > b THEN a ELSE b

RECURSIVE SeqMax(_)
SeqMax(s) == IF Len(s) = 1 THEN s[1] ELSE Max(s[1], SeqMax(Tail(s)))

(* linspace with the interval divided into num steps instead of num - 1   *)
(* (the endpoint left out).                                                *)
linspace_no_endpoint(start, stop, num) ==
    [k \in 1..num |-> start + ((stop - start) * (k - 1)) \div num]

(* numpy.linspace(start, stop, num, dtype=int): num evenly spaced samples,  *)
(* the fractional part rounded towards -inf.                               *)
linspace(start, stop, num) ==
    [k \in 1..num |->
        IF num = 1 THEN start
        ELSE start + ((stop - start) * (k - 1)) \div (num - 1)]

(* One bound of a Python slice applied to an axis of length n: a negative  *)
(* bound counts from the end, and the result is clamped to 0..n.           *)
PyBound(b, n) == IF b < 0 THEN Max(b + n, 0) ELSE Min(b, n)

(* Length of a[start:stop] on an axis of length n. *)
PySliceLen(start, stop, n) ==
    Max(PyBound(stop, n) - PyBound(start, n), 0)


----------------------------------------------------------------------------
(* Inputs *)

(* Acquisition orders tried for a grid of n tiles: the identity, the       *)
(* identity with its last entry repeating the first, one of the wrong      *)
(* length, and for nine tiles the order of the script and that order with  *)
(* its last index duplicated.                                              *)
Identity(n) == [k \in 1..n |-> k - 1]

TorderChoices(n) ==
    {Identity(n), Identity(n + 1)}
        \cup (IF n >= 2 THEN {[Identity(n) EXCEPT ![n] = 0]} ELSE {})
        \cup (IF n = Len(torder_src)
              THEN {torder_src, [torder_src EXCEPT ![n] = 1]} ELSE {})

(* Shapes <<channels, height, width>> the conversion may deliver: a full   *)
(* frame, a frame too short for the lower rows of the grid, and a frame    *)
(* with one channel fewer than the script expects.                         *)
ImgShapes ==
    {<<nc, 2160, 2560>>, <<nc, 450, 2560>>, <<nc - 1, 2160, 2560>>}

----------------------------------------------------------------------------
(* Pure computations of the script *)

(* np.dstack(np.meshgrid(xs, ys)).reshape((len(torder), -1))[torder, ::-1] *)
(* raster index r = row * nx + col holds (xs[col], ys[row]); the fancy     *)
(* index picks raster entries in acquisition order and ::-1 swaps each to  *)
(* (row, column).                                                          *)
tpos_of(xs_, ys_, torder_) ==
    [k \in 1..Len(torder_) |->
        LET r   == torder_[k]
            row == r \div Len(xs_)
            col == r % Len(xs_)
        IN  <<ys_[row + 1], xs_[col + 1]>>]

(* The flip applied to the order of the rows of tpos as well as to the     *)
(* row coordinate.                                                         *)
tpos_flip_y_reversed(tpos_) ==
    LET top == SeqMax([k \in 1..Len(tpos_) |-> tpos_[k][1]])
        n   == Len(tpos_)
    IN  [k \in 1..n |-> <<top - tpos_[n + 1 - k][1], tpos_[n + 1 - k][2]>>]

(* The flip without the offset by the largest row. *)
tpos_flip_y_no_offset(tpos_) ==
    [k \in 1..Len(tpos_) |-> <<0 - tpos_[k][1], tpos_[k][2]>>]

(* tpos * [-1, 1] + [tpos[:, 0].max(), 0] *)
tpos_flip_y(tpos_) ==
    LET top == SeqMax([k \in 1..Len(tpos_) |-> tpos_[k][1]])
    IN  [k \in 1..Len(tpos_) |-> <<top - tpos_[k][1], tpos_[k][2]>>]

(* One ome_types Image (lines 78-98) for a flipped position (y, x). *)
Image(y, x) ==
    [size_x |-> tw, size_y |-> th, size_c |-> nc,
     ifd |-> 0, plane_count |-> nc,
     planes |-> [c \in 1..nc |->
                    [the_c |-> c - 1,
                     position_x |-> x * pixel_size,
                     position_y |-> y * pixel_size]]]

(* The image index used as the frame index, not scaled by nc. *)
ifd_of_unscaled(k) == k - 1

(* np.arange(0, len(ome.images)) * nc, zipped with the images (line 110) *)
ifd_of(k) == (k - 1) * nc

(* A draw per axis, each of size 2: two pairs consumed per tile. *)
rand_uniform_per_axis(state) == [pair |-> state, state |-> state + 2]

(* rand.uniform(-ms, ms, size=2): the pair handed out is identified by its *)
(* position in the stream; drawing it advances the stream by one pair.     *)
rand_uniform(state) == [pair |-> state, state |-> state + 1]

(* np.hstack([0, pair]) with the pair's range: channel shift 0 *)
shift_of(pair, m) == [c |-> 0, pair |-> pair, low |-> -m, high |-> m]

(* img[:, y : y + th + ms * 2, x : x + tw + ms * 2] *)
crop(shape, y, x, m) ==
    <<shape[1],
      PySliceLen(y, y + th + m * 2, shape[2]),
      PySliceLen(x, x + tw + m * 2, shape[3])>>

(* ndi.shift(tile, shift)[:, ms:-ms, ms:-ms]: the shift keeps the shape,   *)
(* the slice trims it.                                                     *)
trim(window, m) ==
    <<window[1],
      PySliceLen(m, -m, window[2]),
      PySliceLen(m, -m, window[3])>>

(* The document attached to every write. *)
description_always(t, x) == x

(* description = xml if ti == 0 else None, as a list of zero or one item *)
description_of(t, x) == IF t = 0 THEN x ELSE <<>>

----------------------------------------------------------------------------
(* Initial state: the script's inputs, before line 27 *)

Init ==
    /\ pc = "check_inputs"
    /\ base_exists \in SUBSET (1..Len(rel_paths))
    /\ ms \in {0, 5}
    /\ x1 = 600
    /\ y1 \in {5, 3}
    /\ ov \in {36, 100}
    /\ nx \in 1..MaxN
    /\ ny \in 1..MaxN
    /\ torder \in TorderChoices(nx * ny)
    /\ p = 1
    /\ missing = FALSE
    /\ stdout = <<>>
    /\ xs = <<>>
    /\ ys = <<>>
    /\ tpos = <<>>
    /\ rand = 0
    /\ ome_base = <<>>
    /\ i = 1
    /\ img = <<>>
    /\ xml = <<>>
    /\ ti = 0
    /\ outputs = <<>>
    /\ bfconvert_runs = 0
    /\ tmp_reads = 0
    /\ tmp_removes = 0

config == <<base_exists, x1, y1, ov, ms, nx, ny, torder>>
effects == <<bfconvert_runs, tmp_reads, tmp_removes>>

----------------------------------------------------------------------------
(* Actions *)

(* The existence loop leaving at the first missing path. *)
CheckInput_break ==
    /\ pc = "check_inputs"
    /\ p <= Len(rel_paths)
    /\ IF p \notin base_exists
       THEN /\ missing' = TRUE
            /\ stdout' = Append(stdout, rel_paths[p])
            /\ p' = Len(rel_paths) + 1
       ELSE /\ UNCHANGED <<missing, stdout>>
            /\ p' = p + 1
    /\ UNCHANGED <<pc, config, xs, ys, tpos, rand, ome_base, i, img, xml, ti,
                   outputs, effects>>

(* lines 28-32: one iteration of the existence loop *)
CheckInput ==
    /\ pc = "check_inputs"
    /\ p <= Len(rel_paths)
    /\ IF p \notin base_exists
       THEN /\ missing' = TRUE
            /\ stdout' = Append(stdout, rel_paths[p])
       ELSE UNCHANGED <<missing, stdout>>
    /\ p' = p + 1
    /\ UNCHANGED <<pc, config, xs, ys, tpos, rand, ome_base, i, img, xml, ti,
                   outputs, effects>>

(* lines 33-40: sys.exit(1) *)
ExitMissing ==
    /\ pc = "check_inputs"
    /\ p > Len(rel_paths)
    /\ missing
    /\ pc' = "exit_1"
    /\ UNCHANGED <<config, p, missing, stdout, xs, ys, tpos, rand, ome_base,
                   i, img, xml, ti, outputs, effects>>

(* lines 42-55: the constants and the two assertions *)
Configure ==
    /\ pc = "check_inputs"
    /\ p > Len(rel_paths)
    /\ ~missing
    /\ pc' = IF x1 >= ms /\ y1 >= ms /\ Len(torder) = nx * ny
             THEN "plan" ELSE "AssertionError"
    /\ UNCHANGED <<config, p, missing, stdout, xs, ys, tpos, rand, ome_base,
                   i, img, xml, ti, outputs, effects>>

(* lines 57-61: the grid, the permuted corners, the jitter stream *)
PlanGrid ==
    /\ pc = "plan"
    /\ xs' = linspace(x1 - ms, x1 - ms + (tw - ov) * (nx - 1), nx)
    /\ ys' = linspace(y1 - ms, y1 - ms + (th - ov) * (ny - 1), ny)
    /\ tpos' = tpos_of(xs', ys', torder)
    /\ rand' = 0
    /\ pc' = "metadata"
    /\ UNCHANGED <<config, p, missing, stdout, ome_base, i, img, xml, ti,
                   outputs, effects>>

(* lines 76-98: one iteration of the metadata loop *)
BuildImage ==
    /\ pc = "metadata"
    /\ LET k  == Len(ome_base) + 1
           yx == tpos_flip_y(tpos)[k]
       IN  /\ ome_base' = Append(ome_base, Image(yx[1], yx[2]))
           /\ pc' = IF k = Len(tpos) THEN "cycle" ELSE "metadata"
    /\ UNCHANGED <<config, p, missing, stdout, xs, ys, tpos, rand, i, img, xml,
                   ti, outputs, effects>>

(* lines 100-113: convert, read and remove tmp.tif, renumber and serialize *)
(* the document, open the writer.  bfconvert's exit status is not checked; *)
(* when it leaves no tmp.tif, imread raises.                               *)
BeginCycle ==
    /\ pc = "cycle"
    /\ bfconvert_runs' = bfconvert_runs + 1
    /\ \/ /\ pc' = "FileNotFoundError"
          /\ UNCHANGED <<ome_base, img, xml, ti, outputs, tmp_reads, tmp_removes>>
       \/ \E shape \in ImgShapes :
          /\ img' = shape
          /\ tmp_reads' = tmp_reads + 1
          /\ tmp_removes' = tmp_removes + 1
          /\ ome_base' = [k \in 1..Len(ome_base) |->
                             [ome_base[k] EXCEPT !.ifd = ifd_of(k)]]
          /\ xml' = <<[uuid |-> i, images |-> ome_base']>>
          /\ outputs' = Append(outputs,
                 [cycle |-> i, source |-> shape, pages |-> <<>>, closed |-> FALSE])
          /\ ti' = 0
          /\ pc' = "tiles"
    /\ UNCHANGED <<config, p, missing, stdout, xs, ys, tpos, rand, i>>

(* lines 114-126: one iteration of the tile loop *)
WriteTile ==
    /\ pc = "tiles"
    /\ ti < Len(tpos)
    /\ LET y      == tpos[ti + 1][1]
           x      == tpos[ti + 1][2]
           draw   == rand_uniform(rand)
           window == crop(img, y, x, ms)
           page   == [corner |-> <<y, x>>,
                      shift |-> shift_of(draw.pair, ms),
                      window |-> window,
                      shape |-> trim(window, ms),
                      description |-> description_of(ti, xml)]
       IN  /\ rand' = draw.state
           /\ outputs' = [outputs EXCEPT ![i].pages = Append(@, page)]
    /\ ti' = ti + 1
    /\ UNCHANGED <<pc, config, p, missing, stdout, xs, ys, tpos, ome_base, i,
                   img, xml, effects>>

(* end of the with block and lines 127-128: close the file, next cycle *)
EndCycle ==
    /\ pc = "tiles"
    /\ ti = Len(tpos)
    /\ outputs' = [outputs EXCEPT ![i].closed = TRUE]
    /\ i' = i + 1
    /\ pc' = IF i = Len(rel_paths) THEN "done" ELSE "cycle"
    /\ UNCHANGED <<config, p, missing, stdout, xs, ys, tpos, rand, ome_base,
                   img, xml, ti, effects>>

Next ==
    \/ CheckInput
    \/ ExitMissing
    \/ Configure
    \/ PlanGrid
    \/ BuildImage
    \/ BeginCycle
    \/ WriteTile
    \/ EndCycle

Spec == Init /\ [][Next]_vars

----------------------------------------------------------------------------
(* Vocabulary of the properties *)

Files == 1..Len(outputs)
PagesOf(c) == outputs[c].pages
PageIdx(c) == 1..Len(PagesOf(c))

(* The document a file carries: the one embedded in its first write. *)
DocOf(c) == PagesOf(c)[1].description[1]

(* Corner (row, column) of raster tile r, straight from the GridSpec. *)
RasterCorner(r) ==
    <<(y1 - ms) + (th - ov) * (r \div nx), (x1 - ms) + (tw - ov) * (r % nx)>>

MaxRow == SeqMax([k \in 1..Len(tpos) |-> tpos[k][1]])

RECURSIVE SumSeq(_)
SumSeq(s) == IF s = <<>> THEN 0 ELSE s[1] + SumSeq(Tail(s))

(* Planes (channel x tile) written to file c. *)
PlanesWritten(c) == SumSeq([k \in PageIdx(c) |-> PagesOf(c)[k].shape[1]])

(* Frame indices an image of a document refers to. *)
Frames(im) == im.ifd .. (im.ifd + im.plane_count - 1)

(* The planned window of a page lies inside the raster it was cut from. *)
WindowFits(c, k) ==
    LET page == PagesOf(c)[k]
    IN  /\ page.corner[1] + th + 2 * ms <= outputs[c].source[2]
        /\ page.corner[2] + tw + 2 * ms <= outputs[c].source[3]

HasDuplicate(s) == \E a, b \in 1..Len(s) : a # b /\ s[a] = s[b]

Scenario ==
    /\ x1 - ms = 595 /\ y1 - ms = 0 /\ ov = 36 /\ ms = 5
    /\ nx = 3 /\ ny = 3 /\ torder = torder_src

----------------------------------------------------------------------------
(* C1: in every cycle the k-th tile written is cropped at corner tpos[k]   *)
(* of the permuted grid, and the k-th image of the file's document carries *)
(* the stage position derived from that same tpos[k]: the metadata order   *)
(* is the tile-write order.                                                *)
C1_MetadataFollowsWriteOrder ==
    \A c \in Files : \A k \in PageIdx(c) :
        LET page == PagesOf(c)[k]
            im   == DocOf(c).images[k]
        IN  /\ tpos[k] = RasterCorner(torder[k])
            /\ page.corner = tpos[k]
            /\ \A ch \in 1..nc :
                  /\ im.planes[ch].position_x = pixel_size * tpos[k][2]
                  /\ im.planes[ch].position_y = pixel_size * (MaxRow - tpos[k][1])

C1_Witness ==
    /\ pc = "done" /\ torder = torder_src
    /\ \A c \in 1..Len(rel_paths) : Len(PagesOf(c)) = Len(torder_src)

(* C2: a completed run over 3 cycles, a 3x3 grid and 4-channel rasters     *)
(* (positive margin) leaves exactly 3 files of 36 planes each; each        *)
(* document declares 36 planes, image k referring to the 4 frames from     *)
(* (k-1)*4, and the frames cover 0..35 with no frame referenced twice.     *)
C2_PlaneCounts ==
    (/\ pc = "done" /\ nx = 3 /\ ny = 3 /\ ms > 0
     /\ \A c \in Files : outputs[c].source[1] = nc)
    =>
    /\ Len(outputs) = 3
    /\ \A c \in Files :
        LET ims == DocOf(c).images
        IN  /\ outputs[c].closed
            /\ PlanesWritten(c) = 36
            /\ SumSeq([k \in 1..Len(ims) |-> Len(ims[k].planes)]) = 36
            /\ SumSeq([k \in 1..Len(ims) |-> ims[k].plane_count]) = 36
            /\ \A k \in 1..Len(ims) : Frames(ims[k]) = ((k - 1) * 4)..((k - 1) * 4 + 3)
            /\ UNION {Frames(ims[k]) : k \in 1..Len(ims)} = 0..35
            /\ \A a, b \in 1..Len(ims) :
                  a # b => Frames(ims[a]) \cap Frames(ims[b]) = {}

C2_Witness ==
    /\ pc = "done" /\ nx = 3 /\ ny = 3 /\ ms > 0 /\ Len(outputs) = 3
    /\ \A c \in Files : outputs[c].source[1] = nc

(* C3 as claimed: in the end-to-end scenario the first plane of the        *)
(* document has stage position (0.0, 0.0).                                 *)
C3_FirstPlaneAtOrigin ==
    (Scenario /\ xml # <<>>) =>
        /\ xml[1].images[1].planes[1].position_x = 0
        /\ xml[1].images[1].planes[1].position_y = 0

(* C3 as amended: in the end-to-end scenario the first plane of the        *)
(* document has stage Y 0.0 and stage X 595 * 0.65 = 386.75: only the Y    *)
(* axis is normalised by the flip.                                         *)
C3_FirstPlaneYZero ==
    (Scenario /\ xml # <<>>) =>
        /\ xml[1].images[1].planes[1].position_y = 0
        /\ xml[1].images[1].planes[1].position_x = 38675

C3_Witness == Scenario /\ xml # <<>> /\ pc = "done"

(* C4: the jitter stream is never reset: tile k (0-based) of cycle c uses  *)
(* pair (c-1)*nx*ny + k of the stream, one pair is drawn per tile written, *)
(* the channel shift is 0, and a completed run has drawn cycles*nx*ny      *)
(* pairs.                                                                  *)
C4_OneStreamAcrossCycles ==
    /\ \A c \in Files : \A k \in PageIdx(c) :
          /\ PagesOf(c)[k].shift.pair = (c - 1) * nx * ny + (k - 1)
          /\ PagesOf(c)[k].shift.c = 0
          /\ c > 1 => PagesOf(c)[k].shift.pair # PagesOf(1)[k].shift.pair
    /\ rand = SumSeq([c \in Files |-> Len(PagesOf(c))])
    /\ pc = "done" => rand = Len(rel_paths) * nx * ny

C4_Witness ==
    /\ pc = "done" /\ nx * ny > 1
    /\ PagesOf(2)[1].shift.pair = nx * ny

(* C5: in every file the serialized document is attached to the first     *)
(* write only; every later write carries none.                             *)
C5_DescriptionOnFirstWriteOnly ==
    \A c \in Files : \A k \in PageIdx(c) :
        /\ k = 1 => /\ Len(PagesOf(c)[k].description) = 1
                    /\ PagesOf(c)[k].description[1].uuid = c
        /\ k > 1 => PagesOf(c)[k].description = <<>>

C5_Witness ==
    /\ pc = "done"
    /\ \A c \in 1..Len(rel_paths) : Len(PagesOf(c)) > 1

(* C6: when a source file is absent the run reports every missing file and *)
(* exits before any processing: no conversion, no temporary file read or   *)
(* removed, no jitter drawn, no output file.                               *)
MissingPaths == {rel_paths[q] : q \in (1..Len(rel_paths)) \ base_exists}

C6_MissingInputHalts ==
    base_exists # 1..Len(rel_paths) =>
        /\ pc \in {"check_inputs", "exit_1"}
        /\ bfconvert_runs = 0 /\ tmp_reads = 0 /\ tmp_removes = 0
        /\ rand = 0 /\ outputs = <<>>
        /\ pc = "exit_1" =>
              /\ {stdout[q] : q \in 1..Len(stdout)} = MissingPaths
              /\ Len(stdout) = Cardinality(MissingPaths)

C6_Witness == pc = "exit_1" /\ Len(stdout) >= 2

(* C7: an acquisition order of the right length with a duplicate index is  *)
(* rejected before any file I/O and before any tile is processed: no       *)
(* raster is read, no output file is created, no jitter is drawn.          *)
C7_DuplicateOrderRejected ==
    (Len(torder) = nx * ny /\ HasDuplicate(torder)) =>
        /\ tmp_reads = 0 /\ outputs = <<>>
        /\ rand = 0

(* C8: a tile whose planned window of (th + 2*ms) x (tw + 2*ms) at tpos[k] *)
(* extends past the source array is never written: extraction fails and    *)
(* the run aborts, so no tile of a size other than th x tw reaches a file  *)
(* (stated for a positive margin; margin 0 is the case of C9).             *)
C8_OutOfBoundsAborts ==
    \A c \in Files : \A k \in PageIdx(c) :
        ms > 0 =>
            /\ WindowFits(c, k)
            /\ PagesOf(c)[k].shape[2] = th /\ PagesOf(c)[k].shape[3] = tw

(* C9: with margin 0 an in-bounds tile is still th x tw pixels per         *)
(* channel, the direct unshifted crop at its corner.                       *)
C9_ZeroMarginExactCrop ==
    \A c \in Files : \A k \in PageIdx(c) :
        (ms = 0 /\ WindowFits(c, k)) =>
            /\ PagesOf(c)[k].shift.low = 0 /\ PagesOf(c)[k].shift.high = 0
            /\ PagesOf(c)[k].shape = <<outputs[c].source[1], th, tw>>

(* C10 as claimed: a planned grid has nx*ny corners, consecutive corners   *)
(* along an axis differ by tile size - overlap, and every corner is at     *)
(* least margin pixels from 0 on both axes.                                *)
GridPlanned == pc \notin {"check_inputs", "exit_1", "AssertionError", "plan"}

GridSpacing ==
    /\ Len(xs) = nx /\ Len(ys) = ny /\ Len(tpos) = nx * ny
    /\ \A j \in 1..(nx - 1) : xs[j + 1] - xs[j] = tw - ov
    /\ \A j \in 1..(ny - 1) : ys[j + 1] - ys[j] = th - ov

C10_CornersAtLeastMargin ==
    GridPlanned =>
        /\ GridSpacing
        /\ \A j \in 1..nx : xs[j] >= ms
        /\ \A j \in 1..ny : ys[j] >= ms

(* C10 as amended: a planned grid (overlap no larger than the tile) has    *)
(* nx*ny corners, consecutive corners along an axis differ by tile size -  *)
(* overlap, the first corner is origin - margin, and every corner is at    *)
(* least 0 (not margin) on both axes.                                      *)
C10_CornersNonNegative ==
    (GridPlanned /\ ov <= tw /\ ov <= th) =>
        /\ GridSpacing
        /\ xs[1] = x1 - ms /\ ys[1] = y1 - ms
        /\ \A j \in 1..nx : xs[j] >= 0
        /\ \A j \in 1..ny : ys[j] >= 0

C10_Witness == GridPlanned /\ nx = 3 /\ ny = 3 /\ ms = 5 /\ ys[1] = 0

============================================================================
